---- MODULE Spec2Model ----
(***************************************************************************)
(* The glean loop of gleaning_demo.ipynb: one Draft call, then up to       *)
(* max_iter rounds of Critique and Revise, ending early when a verdict     *)
(* says that no improvement is needed.                                     *)
(*                                                                         *)
(* draft, critique and revise are calls to an external LLM.  Each is       *)
(* modelled as a call step followed by a return step whose outcome the     *)
(* environment chooses: a value, or a failure that raises in glean.  The   *)
(* sequence `calls` records what the collaborator saw of each call.        *)
(* A finished invocation can be replayed with mocked steps that return     *)
(* the recorded outcomes in order.                                         *)
(***************************************************************************)
EXTENDS Integers, Sequences, FiniteSets, TLC

\* ---------------------------------------------------------------- bounds

\* largest max_iter the caller passes in the model
MaxIterCap == 3

\* max_iter is a Python int: negative values are accepted by range()
MaxIterValues == {0 - 1} \cup (0 .. MaxIterCap)

Roles == {"r1", "r2"}
Texts == {"e1", "e2"}
Feedbacks == {"f1", "f2"}
\* failures of the LLM invocation itself (network, rate limit)
InvocationErrors == {"net", "rate"}
\* failure of the response_model validation of the critique step
ValidationError == "validation"
\* failure of a mocked step that has no recorded outcome left
MockExhausted == "exhausted"

None == "none"

\* ------------------------------------------------------- outcomes of calls

TextOut(t) ==
    [kind |-> "text", text |-> t, feedback |-> None,
     needs_improvement |-> FALSE, error |-> None]

\* class Critique(BaseModel): feedback: str, needs_improvement: bool
Critique(f, n) ==
    [kind |-> "verdict", text |-> None, feedback |-> f,
     needs_improvement |-> n, error |-> None]

ErrorOut(e) ==
    [kind |-> "error", text |-> None, feedback |-> None,
     needs_improvement |-> FALSE, error |-> e]

Pending ==
    [kind |-> "pending", text |-> None, feedback |-> None,
     needs_improvement |-> FALSE, error |-> None]

NoVerdict ==
    [kind |-> "none", text |-> None, feedback |-> None,
     needs_improvement |-> FALSE, error |-> None]

\* what draft(role) can produce: free text, or an invocation failure
draft == {TextOut(t) : t \in Texts} \cup {ErrorOut(e) : e \in InvocationErrors}

\* what critique(role, email) can produce: a validated Critique, an
\* invocation failure, or a response that fails validation
critique ==
    {Critique(f, n) : f \in Feedbacks, n \in BOOLEAN}
        \cup {ErrorOut(e) : e \in InvocationErrors \cup {ValidationError}}

\* what revise(role, email, feedback) can produce
revise == {TextOut(t) : t \in Texts} \cup {ErrorOut(e) : e \in InvocationErrors}

StepOutcomes(step) ==
    IF step = "draft" THEN draft
    ELSE IF step = "critique" THEN critique
    ELSE revise

\* ------------------------------------------------------------------ state

VARIABLES
    pc,         \* position of glean: idle, draft, wait_draft, loop, critique,
                \* wait_critique, check, revise, wait_revise, returned, raised
    role,       \* parameter role of the current invocation
    max_iter,   \* parameter max_iter of the current invocation
    i,          \* number of iterations of `for _ in range(max_iter)` started
    email,      \* local variable email
    fb,         \* local variable fb
    result,     \* value returned to the caller
    exc,        \* exception raised to the caller
    calls,      \* the step calls of this invocation, in order
    stdout,     \* what the invocation printed
    replay      \* the recorded invocation that mocked steps replay

vars == <<pc, role, max_iter, i, email, fb, result, exc, calls, stdout, replay>>

NoReplay ==
    [on |-> FALSE, script |-> <<>>, pc |-> None, result |-> None,
     exc |-> None, stdout |-> <<>>]

CallEntry(step, r, e, f) ==
    [step |-> step, role |-> r, email |-> e, feedback |-> f, out |-> Pending]

\* the calls of one step, in order
RECURSIVE CallsOf(_, _)
CallsOf(log, step) ==
    IF log = <<>> THEN <<>>
    ELSE IF Head(log).step = step
         THEN <<Head(log)>> \o CallsOf(Tail(log), step)
         ELSE CallsOf(Tail(log), step)

Count(step) == Len(CallsOf(calls, step))

Finished == pc \in {"returned", "raised"}
Running == pc \notin {"idle", "returned", "raised"}

\* the outcomes the environment can give to the call in flight: any outcome
\* of the step when the LLM is live, the recorded one when it is mocked
Outcomes(step) ==
    IF ~replay.on THEN StepOutcomes(step)
    ELSE LET recorded == CallsOf(replay.script, step)
             n == Count(step)
         IN  IF n <= Len(recorded) THEN {recorded[n].out}
             ELSE {ErrorOut(MockExhausted)}

Returned(out) == [calls EXCEPT ![Len(calls)].out = out]

\* ------------------------------------------------------------------- Init

Init ==
    /\ pc = "idle"
    /\ role = None
    /\ max_iter = 0
    /\ i = 0
    /\ email = None
    /\ fb = NoVerdict
    /\ result = None
    /\ exc = None
    /\ calls = <<>>
    /\ stdout = <<>>
    /\ replay = NoReplay

\* ---------------------------------------------------------------- actions


\* variant of Enter: the iteration counter lives outside the function and is
\* not reset on entry
EnterStale(r, m) ==
    /\ pc' = "draft"
    /\ role' = r
    /\ max_iter' = m
    /\ i' = i
    /\ email' = None
    /\ fb' = NoVerdict
    /\ result' = None
    /\ exc' = None
    /\ calls' = <<>>
    /\ stdout' = <<>>


\* variant of Enter: the candidate and the verdict live outside the function
\* and are kept from the invocation before
EnterCached(r, m) ==
    /\ pc' = "draft"
    /\ role' = r
    /\ max_iter' = m
    /\ i' = 0
    /\ email' = email
    /\ fb' = fb
    /\ result' = None
    /\ exc' = None
    /\ calls' = <<>>
    /\ stdout' = <<>>

\* entry of glean(r, m): every local starts fresh, nothing is carried over
\* from an earlier invocation
Enter(r, m) ==
    /\ pc' = "draft"
    /\ role' = r
    /\ max_iter' = m
    /\ i' = 0
    /\ email' = None
    /\ fb' = NoVerdict
    /\ result' = None
    /\ exc' = None
    /\ calls' = <<>>
    /\ stdout' = <<>>

\* the caller invokes glean(r, m) against the live LLM
glean(r, m) ==
    /\ pc \in {"idle", "returned", "raised"}
    /\ Enter(r, m)
    /\ replay' = NoReplay

\* the caller invokes glean again with the same arguments, the three steps
\* mocked to return the outcomes recorded in the invocation that just ended
Replay ==
    /\ Finished
    /\ ~replay.on
    /\ Enter(role, max_iter)
    /\ replay' = [on |-> TRUE, script |-> calls, pc |-> pc,
                  result |-> result, exc |-> exc, stdout |-> stdout]

\* email = draft(role): the call is made
DraftCall ==
    /\ pc = "draft"
    /\ calls' = Append(calls, CallEntry("draft", role, None, None))
    /\ pc' = "wait_draft"
    /\ UNCHANGED <<role, max_iter, i, email, fb, result, exc, stdout, replay>>

\* email = draft(role): the call returns a text, or raises
DraftReturn(out) ==
    /\ pc = "wait_draft"
    /\ out \in Outcomes("draft")
    /\ calls' = Returned(out)
    /\ IF out.kind = "error"
       THEN /\ pc' = "raised"
            /\ exc' = out.error
            /\ UNCHANGED email
       ELSE /\ pc' = "loop"
            /\ email' = out.text
            /\ UNCHANGED exc
    /\ UNCHANGED <<role, max_iter, i, fb, result, stdout, replay>>


\* variant of ForNext: range(max_iter + 1)
ForNextInclusive ==
    /\ pc = "loop"
    /\ IF i <= max_iter
       THEN /\ i' = i + 1
            /\ pc' = "critique"
            /\ UNCHANGED result
       ELSE /\ result' = email
            /\ pc' = "returned"
            /\ UNCHANGED i
    /\ UNCHANGED <<role, max_iter, email, fb, exc, calls, stdout, replay>>

\* variant of ForNext: range(max_iter - 1)
ForNextShort ==
    /\ pc = "loop"
    /\ IF i + 1 < max_iter
       THEN /\ i' = i + 1
            /\ pc' = "critique"
            /\ UNCHANGED result
       ELSE /\ result' = email
            /\ pc' = "returned"
            /\ UNCHANGED i
    /\ UNCHANGED <<role, max_iter, email, fb, exc, calls, stdout, replay>>

\* variant of ForNext: the body runs once before the bound is tested
ForNextDoWhile ==
    /\ pc = "loop"
    /\ IF i < max_iter \/ i = 0
       THEN /\ i' = i + 1
            /\ pc' = "critique"
            /\ UNCHANGED result
       ELSE /\ result' = email
            /\ pc' = "returned"
            /\ UNCHANGED i
    /\ UNCHANGED <<role, max_iter, email, fb, exc, calls, stdout, replay>>

\* variant of ForNext: the loop has no exit once the bound is reached
ForNextSpin ==
    /\ pc = "loop"
    /\ IF i < max_iter
       THEN /\ i' = i + 1
            /\ pc' = "critique"
            /\ UNCHANGED result
       ELSE /\ UNCHANGED <<i, pc, result>>
    /\ UNCHANGED <<role, max_iter, email, fb, exc, calls, stdout, replay>>


\* variant of ForNext: range(abs(max_iter))
ForNextAbs ==
    /\ pc = "loop"
    /\ IF i < (IF max_iter < 0 THEN 0 - max_iter ELSE max_iter)
       THEN /\ i' = i + 1
            /\ pc' = "critique"
            /\ UNCHANGED result
       ELSE /\ result' = email
            /\ pc' = "returned"
            /\ UNCHANGED i
    /\ UNCHANGED <<role, max_iter, email, fb, exc, calls, stdout, replay>>

\* for _ in range(max_iter): the next iteration starts, or range is
\* exhausted and the final `return email` runs
ForNext ==
    /\ pc = "loop"
    /\ IF i < max_iter
       THEN /\ i' = i + 1
            /\ pc' = "critique"
            /\ UNCHANGED result
       ELSE /\ result' = email
            /\ pc' = "returned"
            /\ UNCHANGED i
    /\ UNCHANGED <<role, max_iter, email, fb, exc, calls, stdout, replay>>

\* fb = critique(role, email): the call is made
CritiqueCall ==
    /\ pc = "critique"
    /\ calls' = Append(calls, CallEntry("critique", role, email, None))
    /\ pc' = "wait_critique"
    /\ UNCHANGED <<role, max_iter, i, email, fb, result, exc, stdout, replay>>


\* variant of CritiqueReturn: the critique step clears the candidate it was
\* given
CritiqueReturnWritesEmail(out) ==
    /\ pc = "wait_critique"
    /\ out \in Outcomes("critique")
    /\ calls' = Returned(out)
    /\ IF out.kind = "error"
       THEN /\ pc' = "raised"
            /\ exc' = out.error
            /\ UNCHANGED <<fb, email>>
       ELSE /\ pc' = "check"
            /\ fb' = out
            /\ email' = None
            /\ UNCHANGED exc
    /\ UNCHANGED <<role, max_iter, i, result, stdout, replay>>

\* fb = critique(role, email): the call returns a Critique, or raises
CritiqueReturn(out) ==
    /\ pc = "wait_critique"
    /\ out \in Outcomes("critique")
    /\ calls' = Returned(out)
    /\ IF out.kind = "error"
       THEN /\ pc' = "raised"
            /\ exc' = out.error
            /\ UNCHANGED fb
       ELSE /\ pc' = "check"
            /\ fb' = out
            /\ UNCHANGED exc
    /\ UNCHANGED <<role, max_iter, i, email, result, stdout, replay>>


\* variant of Check: the test of needs_improvement is inverted
CheckInverted ==
    /\ pc = "check"
    /\ IF fb.needs_improvement
       THEN /\ stdout' = stdout \o <<fb.feedback, "No improvement needed">>
            /\ result' = email
            /\ pc' = "returned"
       ELSE /\ stdout' = Append(stdout, fb.feedback)
            /\ pc' = "revise"
            /\ UNCHANGED result
    /\ UNCHANGED <<role, max_iter, i, email, fb, exc, calls, replay>>

\* variant of Check: the early return is missing, every verdict is revised
CheckAlwaysRevise ==
    /\ pc = "check"
    /\ stdout' = Append(stdout, fb.feedback)
    /\ pc' = "revise"
    /\ UNCHANGED result
    /\ UNCHANGED <<role, max_iter, i, email, fb, exc, calls, replay>>

\* print the feedback; if not fb.needs_improvement: print and return email
Check ==
    /\ pc = "check"
    /\ IF ~fb.needs_improvement
       THEN /\ stdout' = stdout \o <<fb.feedback, "No improvement needed">>
            /\ result' = email
            /\ pc' = "returned"
       ELSE /\ stdout' = Append(stdout, fb.feedback)
            /\ pc' = "revise"
            /\ UNCHANGED result
    /\ UNCHANGED <<role, max_iter, i, email, fb, exc, calls, replay>>

\* email = revise(role, email, fb.feedback): the call is made
ReviseCall ==
    /\ pc = "revise"
    /\ calls' = Append(calls, CallEntry("revise", role, email, fb.feedback))
    /\ pc' = "wait_revise"
    /\ UNCHANGED <<role, max_iter, i, email, fb, result, exc, stdout, replay>>


\* variant of ReviseReturn: a failed revise is swallowed and the loop goes on
\* with the candidate it had
ReviseReturnSwallow(out) ==
    /\ pc = "wait_revise"
    /\ out \in Outcomes("revise")
    /\ calls' = Returned(out)
    /\ pc' = "loop"
    /\ email' = IF out.kind = "error" THEN email ELSE out.text
    /\ UNCHANGED exc
    /\ UNCHANGED <<role, max_iter, i, fb, result, stdout, replay>>

\* variant of ReviseReturn: the value of revise is not assigned to email
ReviseReturnDiscard(out) ==
    /\ pc = "wait_revise"
    /\ out \in Outcomes("revise")
    /\ calls' = Returned(out)
    /\ IF out.kind = "error"
       THEN /\ pc' = "raised"
            /\ exc' = out.error
       ELSE /\ pc' = "loop"
            /\ UNCHANGED exc
    /\ UNCHANGED email
    /\ UNCHANGED <<role, max_iter, i, fb, result, stdout, replay>>


\* variant of ReviseReturn: the revise step advances the iteration counter
ReviseReturnCounts(out) ==
    /\ pc = "wait_revise"
    /\ out \in Outcomes("revise")
    /\ calls' = Returned(out)
    /\ IF out.kind = "error"
       THEN /\ pc' = "raised"
            /\ exc' = out.error
            /\ UNCHANGED <<email, i>>
       ELSE /\ pc' = "loop"
            /\ email' = out.text
            /\ i' = i + 1
            /\ UNCHANGED exc
    /\ UNCHANGED <<role, max_iter, fb, result, stdout, replay>>

\* email = revise(role, email, fb.feedback): the call returns, or raises
ReviseReturn(out) ==
    /\ pc = "wait_revise"
    /\ out \in Outcomes("revise")
    /\ calls' = Returned(out)
    /\ IF out.kind = "error"
       THEN /\ pc' = "raised"
            /\ exc' = out.error
            /\ UNCHANGED email
       ELSE /\ pc' = "loop"
            /\ email' = out.text
            /\ UNCHANGED exc
    /\ UNCHANGED <<role, max_iter, i, fb, result, stdout, replay>>

\* one step of the invocation in progress
Step ==
    \/ DraftCall
    \/ \E out \in StepOutcomes("draft") \cup {ErrorOut(MockExhausted)} : DraftReturn(out)
    \/ ForNext
    \/ CritiqueCall
    \/ \E out \in StepOutcomes("critique") \cup {ErrorOut(MockExhausted)} : CritiqueReturn(out)
    \/ Check
    \/ ReviseCall
    \/ \E out \in StepOutcomes("revise") \cup {ErrorOut(MockExhausted)} : ReviseReturn(out)

Next ==
    \/ \E r \in Roles, m \in MaxIterValues : glean(r, m)
    \/ Replay
    \/ Step

Spec == Init /\ [][Next]_vars

\* every step call returns or fails, and the interpreter keeps running glean
LiveSpec == Spec /\ WF_vars(Step)

\* ----------------------------------------------------------------- claims

Max0(n) == IF n > 0 THEN n ELSE 0

Drafts == CallsOf(calls, "draft")
Critiques == CallsOf(calls, "critique")
Revises == CallsOf(calls, "revise")
LastCall == calls[Len(calls)]

\* every critique call so far returned a verdict with needs_improvement
AllNeedImprovement ==
    \A j \in 1 .. Len(Critiques) :
        /\ Critiques[j].out.kind = "verdict"
        /\ Critiques[j].out.needs_improvement

\* C1 as stated: a completed invocation made exactly one Draft call, at most
\* max_iter Critique calls and at most max_iter Revise calls, and at every
\* point the Revise calls so far are no more than the Critique calls so far.
C1_Original ==
    /\ Finished => Len(Drafts) = 1
    /\ Finished => Len(Critiques) <= max_iter /\ Len(Revises) <= max_iter
    /\ Len(Revises) <= Len(Critiques)

\* C1 amended: a completed invocation made exactly one Draft call; at every
\* point of an invocation the Critique calls and the Revise calls number at
\* most max(0, max_iter) each, and the Revise calls so far are no more than
\* the Critique calls so far.
C1_CallCounts ==
    /\ Finished => Len(Drafts) = 1
    /\ Len(Drafts) <= 1
    /\ Len(Critiques) <= Max0(max_iter)
    /\ Len(Revises) <= Max0(max_iter)
    /\ Len(Revises) <= Len(Critiques)

\* an invocation that used its whole budget of Critique calls and ended
\* with fewer Revise calls than Critique calls
C1_Witness ==
    /\ Finished
    /\ max_iter = MaxIterCap
    /\ Len(Drafts) = 1
    /\ Len(Critiques) = max_iter
    /\ Len(Revises) = max_iter - 1

\* C2: for 1 <= k <= max_iter, when the first k-1 verdicts say
\* needs_improvement and the k-th says it is not needed, there are exactly k
\* Critique calls and k-1 Revise calls, nothing runs after the approving
\* verdict, and the value returned is the candidate given to the k-th
\* Critique call.
C2_ApprovalStops ==
    \A k \in 1 .. Len(Critiques) :
        ( /\ k <= max_iter
          /\ Critiques[k].out.kind = "verdict"
          /\ ~Critiques[k].out.needs_improvement
          /\ \A j \in 1 .. k - 1 :
                /\ Critiques[j].out.kind = "verdict"
                /\ Critiques[j].out.needs_improvement )
        => /\ Len(Critiques) = k
           /\ Len(Revises) = k - 1
           /\ LastCall = Critiques[k]
           /\ pc \in {"check", "returned"}
           /\ pc = "returned" => result = Critiques[k].email /\ exc = None

\* Scenario A at the largest bound: approval on the last allowed iteration
C2_Witness ==
    /\ pc = "returned"
    /\ max_iter = MaxIterCap
    /\ Len(Critiques) = MaxIterCap
    /\ Len(Revises) = MaxIterCap - 1
    /\ ~LastCall.out.needs_improvement
    /\ LastCall.out.kind = "verdict"
    /\ result = LastCall.email

\* C3 as stated: when glean returns and every verdict said needs_improvement,
\* it made exactly max_iter Critique calls and exactly max_iter Revise calls,
\* and it returns the output of the final Revise call, after which no
\* Critique call was made.
C3_Original ==
    (pc = "returned" /\ AllNeedImprovement)
    => /\ Len(Critiques) = max_iter
       /\ Len(Revises) = max_iter
       /\ Len(Revises) > 0 =>
            /\ LastCall.step = "revise"
            /\ result = LastCall.out.text

\* C3 amended: when glean returns and every verdict said needs_improvement,
\* it made exactly max(0, max_iter) Critique calls and as many Revise calls;
\* if there was a Revise call, the value returned is the output of the last
\* one, and that call is the last step call of the invocation (the last
\* revision is not critiqued); otherwise the value returned is the draft.
C3_Exhaustion ==
    (pc = "returned" /\ AllNeedImprovement)
    => /\ Len(Critiques) = Max0(max_iter)
       /\ Len(Revises) = Max0(max_iter)
       /\ Len(Revises) > 0 =>
            /\ LastCall.step = "revise"
            /\ LastCall.out.kind = "text"
            /\ result = LastCall.out.text
       /\ Len(Revises) = 0 =>
            /\ LastCall.step = "draft"
            /\ result = LastCall.out.text

\* Scenario B: one iteration, the single revision is returned and differs
\* from the draft that was critiqued
C3_Witness ==
    /\ pc = "returned"
    /\ max_iter = 1
    /\ Len(calls) = 3
    /\ calls[2].out.needs_improvement
    /\ calls[3].step = "revise"
    /\ result = calls[3].out.text
    /\ result # calls[1].out.text

\* C4: with max_iter = 0 an invocation makes exactly one Draft call and no
\* Critique or Revise call, and returns the output of Draft unchanged.
C4_ZeroIterations ==
    (max_iter = 0 /\ Finished)
    => /\ Len(calls) = 1
       /\ calls[1].step = "draft"
       /\ calls[1].out.kind = "text" => pc = "returned" /\ result = calls[1].out.text
       /\ calls[1].out.kind = "error" => pc = "raised" /\ result = None

C4_Witness ==
    /\ max_iter = 0
    /\ pc = "returned"
    /\ calls[1].out.kind = "text"
    /\ result = calls[1].out.text
    /\ result \in Texts

\* C5: when every step call returns or fails, every invocation ends (returns
\* or raises), whatever the verdicts are.
C5_Terminates == Running ~> Finished

\* the budget was used up by verdicts that all said needs_improvement
C5_Witness ==
    /\ pc = "returned"
    /\ max_iter = MaxIterCap
    /\ i = MaxIterCap
    /\ Len(Critiques) = MaxIterCap
    /\ AllNeedImprovement

\* C6: when a step call fails, glean raises at once: the failed call is the
\* last call of the invocation (no further call, no retry), no value is
\* returned, and the exception the caller gets is the one the step raised.
C6_FailureAborts ==
    /\ (\E j \in 1 .. Len(calls) : calls[j].out.kind = "error")
       => /\ pc = "raised"
          /\ LastCall.out.kind = "error"
          /\ \A j \in 1 .. Len(calls) - 1 : calls[j].out.kind \in {"text", "verdict"}
          /\ exc = LastCall.out.error
          /\ result = None
    /\ pc = "raised" => calls # <<>> /\ LastCall.out.kind = "error"
    /\ pc = "returned" => exc = None

\* Scenario C: the Revise call of iteration 2 fails
C6_Witness ==
    /\ pc = "raised"
    /\ Len(calls) = 5
    /\ calls[5].step = "revise"
    /\ calls[5].out.kind = "error"
    /\ exc = calls[5].out.error
    /\ i = 2

\* the candidates that the locals of glean hold
Retained == {email}

\* C7: after a Revise call produced a new candidate, the candidate that was
\* critiqued before that revision is still held by the loop.
C7_KeepsPrevious ==
    (calls # <<>> /\ LastCall.step = "revise" /\ LastCall.out.kind = "text")
    => LastCall.email \in Retained

\* C8: an invocation replayed with the same role, the same max_iter and the
\* same sequence of step outcomes ends the same way, with the same returned
\* value and the same numbers of Draft, Critique and Revise calls.
C8_Deterministic ==
    (replay.on /\ Finished)
    => /\ pc = replay.pc
       /\ result = replay.result
       /\ exc = replay.exc
       /\ Len(Drafts) = Len(CallsOf(replay.script, "draft"))
       /\ Len(Critiques) = Len(CallsOf(replay.script, "critique"))
       /\ Len(Revises) = Len(CallsOf(replay.script, "revise"))

\* a replay that went through two revisions and returned
C8_Witness ==
    /\ replay.on
    /\ pc = "returned"
    /\ Len(Revises) >= 2
    /\ result = replay.result

\* C9: the step calls are Draft, then Critique and Revise in alternation:
\* Draft is the first call and the only Draft, a Revise call comes right
\* after a Critique call whose verdict said needs_improvement, a Critique
\* call other than the first comes right after a Revise call, and a call is
\* made only when every earlier call has returned.
C9_Order ==
    /\ calls # <<>> => calls[1].step = "draft"
    /\ \A j \in 2 .. Len(calls) :
        /\ calls[j].step # "draft"
        /\ calls[j - 1].out.kind \in {"text", "verdict"}
        /\ calls[j].step = "revise" =>
              /\ calls[j - 1].step = "critique"
              /\ calls[j - 1].out.kind = "verdict"
              /\ calls[j - 1].out.needs_improvement
        /\ calls[j].step = "critique" =>
              calls[j - 1].step = (IF j = 2 THEN "draft" ELSE "revise")
    /\ Cardinality({j \in 1 .. Len(calls) : calls[j].out.kind = "pending"}) <= 1
    /\ Finished => Len(Drafts) = 1

\* a third Critique call is in progress, after two Critique/Revise pairs
C9_Witness ==
    /\ pc = "wait_critique"
    /\ Len(calls) = 6
    /\ calls[6].step = "critique"
    /\ calls[6].out.kind = "pending"
    /\ calls[5].step = "revise"

\* C10: a Critique call gets the candidate produced last (by Draft, or by
\* the Revise call right before it); a Revise call gets the candidate that
\* was just critiqued and the feedback of that verdict, unmodified; the
\* output of Revise becomes the current candidate.
C10_DataFlow ==
    /\ \A j \in 1 .. Len(calls) :
        /\ calls[j].step = "critique" =>
              /\ j > 1
              /\ calls[j - 1].out.kind = "text"
              /\ calls[j].email = calls[j - 1].out.text
        /\ calls[j].step = "revise" =>
              /\ j > 1
              /\ calls[j - 1].step = "critique"
              /\ calls[j].email = calls[j - 1].email
              /\ calls[j].feedback = calls[j - 1].out.feedback
    /\ (calls # <<>> /\ LastCall.out.kind = "text") => email = LastCall.out.text
    /\ (calls # <<>> /\ LastCall.step = "critique") => email = LastCall.email

\* a second Revise call got the output of the first one and the feedback of
\* the second verdict, which differ from the first candidate and feedback
C10_Witness ==
    /\ Len(calls) = 5
    /\ calls[5].step = "revise"
    /\ calls[5].out.kind = "text"
    /\ calls[5].email = calls[3].out.text
    /\ calls[5].email # calls[3].email
    /\ calls[5].feedback = calls[4].out.feedback
    /\ calls[5].feedback # calls[2].out.feedback
    /\ email = calls[5].out.text
    /\ email # calls[5].email

\* C11 as stated: in every state of an invocation, whatever integer
\* max_iter the caller passed, 0 <= i <= max_iter.
C11_Original == pc # "idle" => 0 <= i /\ i <= max_iter

\* the iteration counter changes only when the for statement starts an
\* iteration (by one) or when glean is entered (back to 0): no step call and
\* no return of a step call changes it
CounterOwnedByLoop ==
    i' # i =>
        \/ pc = "loop" /\ pc' = "critique" /\ i' = i + 1
        \/ Finished /\ pc' = "draft" /\ i' = 0

\* C11 amended: in every state of an invocation 0 <= i <= max(0, max_iter),
\* and only the loop changes i: the Draft, Critique and Revise steps do not.
C11_CounterBounds ==
    /\ [](0 <= i /\ i <= Max0(max_iter))
    /\ [][CounterOwnedByLoop]_vars

\* the counter reached the bound while a Revise call is in progress
C11_Witness ==
    /\ pc = "wait_revise"
    /\ max_iter = MaxIterCap
    /\ i = max_iter
    /\ Len(Revises) = max_iter

\* the parameter role is not assigned during an invocation
TaskUnchanged == Running => role' = role

\* email is assigned only when the Draft call or a Revise call returns (and
\* is unset on entry): the Critique step does not write it
CandidateWrittenByLoop ==
    email' # email =>
        \/ pc = "wait_draft" /\ pc' = "loop" /\ email' = calls'[Len(calls')].out.text
        \/ pc = "wait_revise" /\ pc' = "loop" /\ email' = calls'[Len(calls')].out.text
        \/ Finished /\ pc' = "draft" /\ email' = None

\* C12: the task is unchanged during an invocation and the Draft call, every
\* Critique call and every Revise call get exactly the task passed to glean;
\* the candidate is written only by the loop, once from Draft and once per
\* Revise, never by Critique.
C12_TaskAndCandidateFrame ==
    /\ [](\A j \in 1 .. Len(calls) : calls[j].role = role)
    /\ [](pc # "idle" => role \in Roles)
    /\ [][TaskUnchanged]_vars
    /\ [][CandidateWrittenByLoop]_vars

\* a third Critique call has returned for task r2; the candidate is still
\* the output of the second Revise call
C12_Witness ==
    /\ pc = "check"
    /\ role = "r2"
    /\ Len(calls) = 6
    /\ \A j \in 1 .. 6 : calls[j].role = "r2"
    /\ calls[6].step = "critique"
    /\ calls[6].out.kind = "verdict"
    /\ email = calls[5].out.text
    /\ email # calls[3].out.text

\* the locals of an invocation that has not yet got its draft
FreshLocals ==
    /\ i = 0
    /\ email = None
    /\ fb = NoVerdict
    /\ result = None
    /\ exc = None

\* the step that follows a failed invocation is the entry of a new one, with
\* no call made yet and nothing left of the candidate, the verdict or the
\* iteration count of the failed one
RestartFromScratch ==
    (pc = "raised" /\ pc' # "raised") =>
        /\ pc' = "draft"
        /\ calls' = <<>>
        /\ FreshLocals'

\* C13: an invocation that follows a failed one starts from scratch: its
\* locals are fresh until its own Draft call returns, and its first step
\* call is a new Draft call.
C13_NoStateSurvives ==
    /\ [][RestartFromScratch]_vars
    /\ [](pc \in {"draft", "wait_draft"} => FreshLocals)
    /\ [](pc = "draft" => calls = <<>>)
    /\ [](Running /\ pc # "draft" => calls # <<>> /\ calls[1].step = "draft")

\* the invocation before failed in the Revise call of its second iteration;
\* the invocation that follows is waiting for its own Draft call
C13_Witness ==
    /\ replay.on
    /\ replay.pc = "raised"
    /\ Len(replay.script) = 5
    /\ replay.script[3].out.kind = "text"
    /\ pc = "wait_draft"
    /\ Len(calls) = 1
    /\ calls[1].step = "draft"
    /\ FreshLocals

\* C14: with a negative max_iter an invocation does what it does with
\* max_iter = 0: one Draft call, no Critique or Revise call, the output of
\* Draft is returned, and glean raises nothing of its own (only a failure of
\* the Draft call itself makes it raise).
C14_NegativeIsZero ==
    /\ max_iter < 0 => i = 0 /\ Len(calls) <= 1 /\ pc \notin {"critique", "check", "revise"}
    /\ (max_iter < 0 /\ Finished)
       => /\ Len(calls) = 1
          /\ calls[1].step = "draft"
          /\ calls[1].out.kind = "text" =>
                pc = "returned" /\ result = calls[1].out.text /\ exc = None
          /\ pc = "raised" => calls[1].out.kind = "error" /\ exc = calls[1].out.error

\* glean(r, -1) returned the draft
C14_Witness ==
    /\ max_iter < 0
    /\ pc = "returned"
    /\ Len(calls) = 1
    /\ calls[1].step = "draft"
    /\ result = calls[1].out.text
    /\ result \in Texts
    /\ exc = None

====
